---------------------------- MODULE Spec2Model ----------------------------
(***************************************************************************)
(* KPI calculator (SLA/OLA): business calendar, interval engine and the    *)
(* calculate orchestration, modelled from src/src/kpi_calc.                *)
(*                                                                         *)
(* Time.  A timestamp is a natural number of ticks since midnight of day   *)
(* 0, which is a Monday.  Every adapter of the repository builds its       *)
(* datetimes at whole-minute resolution (parsing.py:12 with DT_FORMAT,     *)
(* app_streamlit.py:56 and :152), so a tick stands for a whole number of   *)
(* seconds and int(total_seconds()) loses nothing.  A calendar day is      *)
(* DayLen ticks long (timedelta(days=1)).                                  *)
(***************************************************************************)
EXTENDS Integers, Sequences, FiniteSets

VARIABLES
    provider,   \* the holiday provider: year -> set of days (holidays.country_holidays)
    cache,      \* SpainNationalHolidaysCalendar._cache: year -> set of days
    wpc,        \* position of the working_seconds call: "idle", "loop", "done"
    ws_start,   \* working_seconds: argument start
    ws_end,     \* working_seconds: argument end
    cursor,     \* working_seconds: local cursor
    total,      \* working_seconds: local total
    iters,      \* number of iterations of the day loop so far
    ws_ret,     \* value returned by working_seconds (None until it returns)
    entity,     \* the EntityInput handed to calculate
    cpc,        \* position of the calculate caller: "input", "done"
    res,        \* the CalcResult of the last calculate call (None before)
    xs,         \* the list of intervals the interval engine's caller holds
    window,     \* the window (start, end) last handed to Interval.clip
    ipc,        \* position of the interval engine's caller
    clip_ret,   \* what the last Interval.clip call returned
    merge_first,\* what the first merge_intervals call returned, before any reordering
    merge_ret,  \* what the last merge_intervals(xs) call returned
    merge_twice,\* what merge_intervals returned when handed merge_ret
    reordered,  \* whether the caller has reordered its list since the first merge
    memo,       \* the CalcResult of the caller's first calculate call on its entity
    h_pc,       \* per caller of holidays_for_year: the position of its call
    h_year,     \* per caller of holidays_for_year: the argument year
    h_es,       \* per caller of holidays_for_year: the set it computed (None on a hit)
    h_ret       \* per caller of holidays_for_year: the set its last call returned

vars == <<provider, cache, wpc, ws_start, ws_end, cursor, total, iters, ws_ret,
          entity, cpc, res,
          xs, window, ipc, clip_ret, merge_first, merge_ret, merge_twice, reordered,
          memo, h_pc, h_year, h_es, h_ret>>

wsVars == <<wpc, ws_start, ws_end, cursor, total, iters, ws_ret>>
calcVars == <<entity, cpc, res, memo>>
ivVars == <<xs, window, ipc, clip_ret, merge_first, merge_ret, merge_twice, reordered>>
hfyVars == <<h_pc, h_year, h_es, h_ret>>

-----------------------------------------------------------------------------
(* Bounds of the model *)

\* ticks per calendar day
DayLen == 2
\* days per (model) year
YearLen == 4
\* timestamps of a working_seconds call are drawn from 0..WsMaxTime
WsMaxTime == 17
\* at most this many holidays in the provider's data
MaxHolidays == 1
\* timestamps of an EntityInput are drawn from CalcFirst..CalcFirst + CalcSpan
CalcFirst == 8
CalcSpan == 3
\* at most this many stop records in an EntityInput
MaxStops == 2
\* bounds of the intervals and windows of the interval engine's caller: 0..IvMaxTime
IvMaxTime == 3
\* at most this many intervals in a list handed to merge_intervals
MaxIvs == 3
\* callers of holidays_for_year that share one calendar instance
NumCallers == 2
\* the years those callers ask for: 0..HfyYearCount - 1
HfyYearCount == 2
\* timestamps of the repeated calculate calls are drawn from
\* HistFirst..HistFirst + HistSpan
HistFirst == 7
HistSpan == 2

\* Optional[...]: None, or Some(x)
None == <<>>
Some(x) == <<x>>
Get(o) == o[1]

Max(a, b) == IF a >= b THEN a ELSE b
Min(a, b) == IF a <= b THEN a ELSE b

-----------------------------------------------------------------------------
(* calendar_es.py *)

\* __post_init__: the empty cache of a new calendar
EmptyCache == [y \in {} |-> {}]

\* datetime.date(): the calendar day of a timestamp
DateOf(t) == t \div DayLen

\* date.year
YearOf(d) == d \div YearLen

\* date.weekday(): Monday = 0 ... Sunday = 6
Weekday(d) == d % 7

\* datetime(cursor.year, cursor.month, cursor.day, 0, 0)
DayStart(t) == DateOf(t) * DayLen

\* holidays.country_holidays("ES", years=[year]) as set(es.keys())
ProviderSet(year) == IF year \in DOMAIN provider THEN provider[year] ELSE {}

\* mutant: the write replaces the whole mapping by the one entry
CacheWrite_replaces(c, year, es) == [y \in {year} |-> es]

\* line 29: self._cache[year] = es
CacheWrite(c, year, es) ==
    [y \in DOMAIN c \cup {year} |-> IF y = year THEN es ELSE c[y]]

\* holidays_for_year: the cache after the call
CacheAfter(c, year) ==
    IF year \in DOMAIN c THEN c
    ELSE [y \in DOMAIN c \cup {year} |-> IF y = year THEN ProviderSet(year) ELSE c[y]]

\* mutant: a year found in the cache is answered with the empty set
holidays_for_year_hit_empty(c, year) ==
    IF year \in DOMAIN c THEN {} ELSE ProviderSet(year)

\* holidays_for_year: the returned set (read back from the cache)
holidays_for_year(c, year) == CacheAfter(c, year)[year]

\* mutant: the holidays are looked up in year 0 whatever the day's year
is_working_day_wrong_year(c, d) ==
    IF Weekday(d) >= 5 THEN FALSE
    ELSE d \notin holidays_for_year(c, 0)

is_working_day(c, d) ==
    IF Weekday(d) >= 5 THEN FALSE
    ELSE d \notin holidays_for_year(c, YearOf(d))

\* the cache after is_working_day(d): holidays_for_year runs only on weekdays
CacheAfterDay(c, d) == IF Weekday(d) >= 5 THEN c ELSE CacheAfter(c, YearOf(d))

\* one iteration of the day loop of working_seconds, on the frame
\* f = [cursor, total, iters, cache]
WsBody(f, start, end) ==
    LET day_start == DayStart(f.cursor)
        day_end == day_start + DayLen
        seg_start == Max(start, day_start)
        seg_end == Min(end, day_end)
        counted == seg_end > seg_start
        working == counted /\ is_working_day(f.cache, DateOf(day_start))
    IN  [cursor |-> day_end,
         total |-> IF working THEN f.total + (seg_end - seg_start) ELSE f.total,
         iters |-> f.iters + 1,
         cache |-> IF counted THEN CacheAfterDay(f.cache, DateOf(day_start)) ELSE f.cache]

\* mutant: the loop stops before the day of end
WsCond_before_end_day(f, end) == DateOf(f.cursor) < DateOf(end)

\* the loop condition: cursor.date() <= end.date()
WsCond(f, end) == DateOf(f.cursor) <= DateOf(end)

RECURSIVE WsLoop(_, _, _)
WsLoop(f, start, end) ==
    IF WsCond(f, end) THEN WsLoop(WsBody(f, start, end), start, end) ELSE f

\* mutant: for end <= start the signed difference is returned instead of 0
WsRun_signed(start, end, c) ==
    IF end <= start
    THEN [cursor |-> start, total |-> end - start, iters |-> 0, cache |-> c]
    ELSE WsLoop([cursor |-> start, total |-> 0, iters |-> 0, cache |-> c], start, end)

\* working_seconds as a call: the final frame [cursor, total, iters, cache]
WsRun(start, end, c) ==
    IF end <= start
    THEN [cursor |-> start, total |-> 0, iters |-> 0, cache |-> c]
    ELSE WsLoop([cursor |-> start, total |-> 0, iters |-> 0, cache |-> c], start, end)

working_seconds(start, end, c) == WsRun(start, end, c).total

-----------------------------------------------------------------------------
(* intervals.py *)

\* Interval(start, end)
Interval(s, e) == [start |-> s, end |-> e]

is_valid(iv) == iv.end > iv.start

\* mutant: strict comparisons and no re-validation of the clipped interval
clip_no_revalidate(iv, window_start, window_end) ==
    IF iv.end < window_start \/ iv.start > window_end
    THEN None
    ELSE Some([start |-> Max(iv.start, window_start), end |-> Min(iv.end, window_end)])

\* Interval.clip(window_start, window_end): an Interval or None
clip(iv, window_start, window_end) ==
    IF iv.end <= window_start \/ iv.start >= window_end
    THEN None
    ELSE LET new_start == Max(iv.start, window_start)
             new_end == Min(iv.end, window_end)
             clipped == Interval(new_start, new_end)
         IN  IF is_valid(clipped) THEN Some(clipped) ELSE None

\* [i for i in intervals if i.is_valid()]
RECURSIVE ValidOnly(_)
ValidOnly(seq) ==
    IF seq = <<>> THEN <<>>
    ELSE IF is_valid(Head(seq)) THEN <<Head(seq)>> \o ValidOnly(Tail(seq))
         ELSE ValidOnly(Tail(seq))

\* list.sort(key=lambda x: x.start) is stable: x goes after the elements of the
\* sorted list whose start is <= x.start
RECURSIVE InsertByStart(_, _)
InsertByStart(sorted, x) ==
    IF sorted = <<>> THEN <<x>>
    ELSE IF Head(sorted).start <= x.start
         THEN <<Head(sorted)>> \o InsertByStart(Tail(sorted), x)
         ELSE <<x>> \o sorted

\* mutant: the sort is omitted
SortByStart_omitted(seq) == seq

RECURSIVE SortByStart(_)
SortByStart(seq) ==
    IF seq = <<>> THEN <<>>
    ELSE InsertByStart(SortByStart(SubSeq(seq, 1, Len(seq) - 1)), seq[Len(seq)])

\* mutant: touching intervals are not merged
MergeStep_strict(merged, cur) ==
    LET last == merged[Len(merged)]
    IN  IF cur.start < last.end
        THEN [merged EXCEPT ![Len(merged)] =
                 [start |-> last.start, end |-> Max(last.end, cur.end)]]
        ELSE Append(merged, cur)

\* lines 40-44: one step of the fold
MergeStep(merged, cur) ==
    LET last == merged[Len(merged)]
    IN  IF cur.start <= last.end
        THEN [merged EXCEPT ![Len(merged)] = Interval(last.start, Max(last.end, cur.end))]
        ELSE Append(merged, cur)

\* lines 39-44: the fold over valid[1:]
RECURSIVE MergeFold(_, _)
MergeFold(merged, rest) ==
    IF rest = <<>> THEN merged
    ELSE MergeFold(MergeStep(merged, Head(rest)), Tail(rest))

merge_intervals(intervals) ==
    LET valid == ValidOnly(intervals)
    IN  IF valid = <<>> THEN <<>>
        ELSE LET sorted == SortByStart(valid)
             IN  MergeFold(<<Head(sorted)>>, Tail(sorted))

-----------------------------------------------------------------------------
(* config.py *)

SLA_ENTITY_TYPES ==
    {"Viabilidades", "Viabilidad", "Subviabilidades", "Subviabilidad",
     "Provisión", "Provision", "Provisión/Proyecto", "Provision/Proyecto", "PIP"}

OLA_ENTITY_TYPES == {"Servicio interno", "Tarea"}

SLA_STOP_TYPES == {"Global"}

OLA_STOP_TYPES == {"Global", "Interna", "Externa"}

-----------------------------------------------------------------------------
(* calculator.py *)

\* dt.strftime("%d/%m/%Y - %H:%M"): day of the year, year, time of day
_dt_str(t) ==
    [day |-> DateOf(t) % YearLen, year |-> YearOf(DateOf(t)), hm |-> t % DayLen]

\* parsing.py: datetime.strptime(s, "%d/%m/%Y - %H:%M")
parse_dt(str) == (str.year * YearLen + str.day) * DayLen + str.hm

\* mutant: "kept" is decided by the start alone
EvidenceOf_kept_by_start(s, window_start, w_end) ==
    LET iv == [start |-> s.start, end |-> s.end]
        original == [start |-> _dt_str(s.start), end |-> _dt_str(s.end)]
    IN  IF ~is_valid(iv)
        THEN [stop_type |-> s.stop_type, original |-> original,
              action |-> "rejected_invalid_interval"]
        ELSE LET clipped == clip(iv, window_start, w_end)
             IN  IF clipped = None
                 THEN [stop_type |-> s.stop_type, original |-> original,
                       action |-> "discarded_outside_window"]
                 ELSE [stop_type |-> s.stop_type, original |-> original,
                       clipped |-> [start |-> _dt_str(Get(clipped).start),
                                    end |-> _dt_str(Get(clipped).end)],
                       action |-> IF Get(clipped).start = iv.start
                                  THEN "kept" ELSE "clipped_to_window"]

\* lines 50-54, 59-63, 67-72: the evidence entry of one stop of the family
EvidenceOf(s, window_start, w_end) ==
    LET iv == Interval(s.start, s.end)
        original == [start |-> _dt_str(s.start), end |-> _dt_str(s.end)]
    IN  IF ~is_valid(iv)
        THEN [stop_type |-> s.stop_type, original |-> original,
              action |-> "rejected_invalid_interval"]
        ELSE LET clipped == clip(iv, window_start, w_end)
             IN  IF clipped = None
                 THEN [stop_type |-> s.stop_type, original |-> original,
                       action |-> "discarded_outside_window"]
                 ELSE [stop_type |-> s.stop_type, original |-> original,
                       clipped |-> [start |-> _dt_str(Get(clipped).start),
                                    end |-> _dt_str(Get(clipped).end)],
                       action |-> IF Get(clipped).start = iv.start
                                     /\ Get(clipped).end = iv.end
                                  THEN "kept" ELSE "clipped_to_window"]

\* mutant: a stop outside the window is appended to raw with its original bounds
RawOf_keeps_outside(s, window_start, w_end) ==
    LET iv == [start |-> s.start, end |-> s.end]
    IN  IF ~is_valid(iv) THEN <<>>
        ELSE IF clip(iv, window_start, w_end) = None THEN <<iv>>
             ELSE clip(iv, window_start, w_end)

\* lines 48-73: what one stop of the family appends to raw
RawOf(s, window_start, w_end) ==
    LET iv == Interval(s.start, s.end)
    IN  IF ~is_valid(iv) THEN <<>> ELSE clip(iv, window_start, w_end)

\* mutant: the test of line 45 is inverted
InFamily_inverted(s, stop_types) == s.stop_type \notin stop_types

\* line 45: the stops the loop does not skip
InFamily(s, stop_types) == s.stop_type \in stop_types

\* mutant: an invalid stop is skipped without an evidence entry
RECURSIVE EvidenceList_drops_rejected(_, _, _, _)
EvidenceList_drops_rejected(stops, stop_types, window_start, w_end) ==
    IF stops = <<>> THEN <<>>
    ELSE (IF Head(stops).stop_type \in stop_types /\ Head(stops).end > Head(stops).start
          THEN <<EvidenceOf(Head(stops), window_start, w_end)>> ELSE <<>>)
         \o EvidenceList_drops_rejected(Tail(stops), stop_types, window_start, w_end)

\* lines 44-73: the loop over entity.stops, building evidence
RECURSIVE EvidenceList(_, _, _, _)
EvidenceList(stops, stop_types, window_start, w_end) ==
    IF stops = <<>> THEN <<>>
    ELSE (IF InFamily(Head(stops), stop_types)
          THEN <<EvidenceOf(Head(stops), window_start, w_end)>> ELSE <<>>)
         \o EvidenceList(Tail(stops), stop_types, window_start, w_end)

\* lines 44-73: the loop over entity.stops, building raw
RECURSIVE RawList(_, _, _, _)
RawList(stops, stop_types, window_start, w_end) ==
    IF stops = <<>> THEN <<>>
    ELSE (IF InFamily(Head(stops), stop_types)
          THEN RawOf(Head(stops), window_start, w_end) ELSE <<>>)
         \o RawList(Tail(stops), stop_types, window_start, w_end)

\* mutant: the clipped stops are sorted but not merged
clip_merge_for_unmerged(e, stop_types, w_end) ==
    [merged |-> SortByStart(RawList(e.stops, stop_types, e.start, w_end)),
     evidence |-> EvidenceList(e.stops, stop_types, e.start, w_end)]

\* mutant: the stops are clipped to the to-date window whatever window is asked for
clip_merge_for_to_now(e, stop_types, w_end) ==
    [merged |-> merge_intervals(RawList(e.stops, stop_types, e.start, e.now)),
     evidence |-> EvidenceList(e.stops, stop_types, e.start, e.now)]

\* clip_merge_for(stop_types, w_end): merged, evidence
clip_merge_for(e, stop_types, w_end) ==
    [merged |-> merge_intervals(RawList(e.stops, stop_types, e.start, w_end)),
     evidence |-> EvidenceList(e.stops, stop_types, e.start, w_end)]

\* mutant: the elapsed time of the intervals is summed, not their working time
RECURSIVE sum_working_elapsed(_, _)
sum_working_elapsed(intervals, c) ==
    IF intervals = <<>> THEN [total |-> 0, cache |-> c]
    ELSE [total |-> (Head(intervals).end - Head(intervals).start)
                    + sum_working_elapsed(Tail(intervals), c).total,
          cache |-> c]

\* sum_working(intervals): the sum and the calendar's cache after it
RECURSIVE sum_working(_, _)
sum_working(intervals, c) ==
    IF intervals = <<>> THEN [total |-> 0, cache |-> c]
    ELSE LET r == WsRun(Head(intervals).start, Head(intervals).end, c)
             rest == sum_working(Tail(intervals), r.cache)
         IN  [total |-> r.total + rest.total, cache |-> rest.cache]

\* mutant: the end is used whenever present, whatever is_finalized says
RealEnd_ignores_flag(e) == e.end

\* line 33
RealEnd(e) == IF e.is_finalized /\ e.end # None THEN e.end ELSE None

\* line 133: [{"start": _dt_str(i.start), "end": _dt_str(i.end)} for i in merged]
MergedStr(merged) ==
    [k \in 1..Len(merged) |-> [start |-> _dt_str(merged[k].start),
                               end |-> _dt_str(merged[k].end)]]

NoClipMerge == [merged |-> <<>>, evidence |-> <<>>]

\* max(0, base - stops)
Kpi(base, stops) == Max(0, base - stops)

\* line 38: working_seconds(...) if real_end else None, with the cache after it
WsRunIf(fin, start, end, c) ==
    IF fin THEN WsRun(start, Get(end), c)
    ELSE [cursor |-> start, total |-> 0, iters |-> 0, cache |-> c]

\* lines 87-89: clip_merge_for(...) if real_end, else the empty lists
ClipMergeIf(fin, e, stop_types, w_end) ==
    IF fin THEN clip_merge_for(e, stop_types, Get(w_end)) ELSE NoClipMerge

\* lines 91-92: sum_working(...) if real_end else 0, with the cache after it
SumWorkingIf(fin, intervals, c) ==
    IF fin THEN sum_working(intervals, c) ELSE [total |-> 0, cache |-> c]

\* lines 30-102 of calculate: r, the record of the locals computed so far, extended
\* in the order the code computes them (the calendar's cache is threaded through)
Locals1From(e, c) ==
    LET r_ttd == WsRun(e.start, e.now, c)
    IN  [real_end |-> RealEnd(e), ttd |-> r_ttd.total, cache |-> r_ttd.cache]

\* line 30: cal = SpainNationalHolidaysCalendar(), a new calendar for every call
Locals1(e) == Locals1From(e, EmptyCache)

Locals2(e, r) ==
    LET r_ttm == WsRunIf(r.real_end # None, e.start, e.end, r.cache)
    IN  [real_end |-> r.real_end, ttd |-> r.ttd,
         ttm |-> IF r.real_end # None THEN Some(r_ttm.total) ELSE None,
         sla_real |-> ClipMergeIf(r.real_end # None, e, SLA_STOP_TYPES, r.real_end),
         ola_real |-> ClipMergeIf(r.real_end # None, e, OLA_STOP_TYPES, r.real_end),
         cache |-> r_ttm.cache]

Locals3(e, r) ==
    LET s == SumWorkingIf(r.real_end # None, r.sla_real.merged, r.cache)
    IN  [real_end |-> r.real_end, ttd |-> r.ttd, ttm |-> r.ttm,
         sla_real |-> r.sla_real, ola_real |-> r.ola_real,
         stops_sla_real |-> s.total, cache |-> s.cache]

Locals4(e, r) ==
    LET s == SumWorkingIf(r.real_end # None, r.ola_real.merged, r.cache)
    IN  [real_end |-> r.real_end, ttd |-> r.ttd, ttm |-> r.ttm,
         sla_real |-> r.sla_real, ola_real |-> r.ola_real,
         stops_sla_real |-> r.stops_sla_real, stops_ola_real |-> s.total,
         sla_td |-> clip_merge_for(e, SLA_STOP_TYPES, e.now),
         ola_td |-> clip_merge_for(e, OLA_STOP_TYPES, e.now),
         cache |-> s.cache]

Locals5(e, r) ==
    LET s == sum_working(r.sla_td.merged, r.cache)
    IN  [real_end |-> r.real_end, ttd |-> r.ttd, ttm |-> r.ttm,
         sla_real |-> r.sla_real, ola_real |-> r.ola_real,
         stops_sla_real |-> r.stops_sla_real, stops_ola_real |-> r.stops_ola_real,
         sla_td |-> r.sla_td, ola_td |-> r.ola_td,
         stops_sla_td |-> s.total, cache |-> s.cache]

Locals6(e, r) ==
    LET s == sum_working(r.ola_td.merged, r.cache)
    IN  [real_end |-> r.real_end, ttd |-> r.ttd, ttm |-> r.ttm,
         sla_real |-> r.sla_real, ola_real |-> r.ola_real,
         stops_sla_real |-> r.stops_sla_real, stops_ola_real |-> r.stops_ola_real,
         sla_td |-> r.sla_td, ola_td |-> r.ola_td,
         stops_sla_td |-> r.stops_sla_td, stops_ola_td |-> s.total,
         is_sla_entity |-> e.entity_type \in SLA_ENTITY_TYPES,
         is_ola_entity |-> e.entity_type \in OLA_ENTITY_TYPES,
         cache |-> s.cache]

\* calculate(entity): every local of the call
CalcLocals(e) ==
    Locals6(e, Locals5(e, Locals4(e, Locals3(e, Locals2(e, Locals1(e))))))

\* lines 115-156: the explain tree
Explain(e, l) ==
    [calendar |-> [mode |-> "Model A (24h Mon-Fri) excluding weekends + ES national holidays"],
     entity |-> [entity_type |-> e.entity_type,
                 is_finalized |-> e.is_finalized,
                 start |-> _dt_str(e.start),
                 end |-> IF e.end # None THEN Some(_dt_str(Get(e.end))) ELSE None,
                 now |-> _dt_str(e.now)],
     windows |-> [real_window |->
                      [start |-> _dt_str(e.start),
                       end |-> IF e.end # None THEN Some(_dt_str(Get(e.end))) ELSE None],
                  to_date_window |-> [start |-> _dt_str(e.start), end |-> _dt_str(e.now)]],
     stops |-> [sla_real |-> [evidence |-> l.sla_real.evidence,
                              merged_intervals |-> MergedStr(l.sla_real.merged),
                              working_seconds |-> l.stops_sla_real],
                ola_real |-> [evidence |-> l.ola_real.evidence,
                              merged_intervals |-> MergedStr(l.ola_real.merged),
                              working_seconds |-> l.stops_ola_real],
                sla_to_date |-> [evidence |-> l.sla_td.evidence,
                                 merged_intervals |-> MergedStr(l.sla_td.merged),
                                 working_seconds |-> l.stops_sla_td],
                ola_to_date |-> [evidence |-> l.ola_td.evidence,
                                 merged_intervals |-> MergedStr(l.ola_td.merged),
                                 working_seconds |-> l.stops_ola_td]],
     durations |-> [ttd_working_seconds |-> l.ttd, ttm_working_seconds |-> l.ttm]]

\* lines 104-113 and 158-172: the CalcResult from the locals
ResultOf(e, l) ==
    [ttd_seconds |-> l.ttd,
     ttm_seconds |-> l.ttm,
     stops_sla_seconds |-> IF l.real_end # None THEN l.stops_sla_real ELSE l.stops_sla_td,
     stops_ola_seconds |-> IF l.real_end # None THEN l.stops_ola_real ELSE l.stops_ola_td,
     sla_real_seconds |-> IF l.real_end # None /\ l.ttm # None /\ l.is_sla_entity
                          THEN Some(Kpi(Get(l.ttm), l.stops_sla_real)) ELSE None,
     sla_to_date_seconds |-> IF l.is_sla_entity
                             THEN Some(Kpi(l.ttd, l.stops_sla_td)) ELSE None,
     ola_real_seconds |-> IF l.real_end # None /\ l.ttm # None /\ l.is_ola_entity
                          THEN Some(Kpi(Get(l.ttm), l.stops_ola_real)) ELSE None,
     ola_to_date_seconds |-> IF l.is_ola_entity
                             THEN Some(Kpi(l.ttd, l.stops_ola_td)) ELSE None,
     explain |-> Explain(e, l)]

\* calculate(entity): the CalcResult
calculate(e) == ResultOf(e, CalcLocals(e))

\* lines 32-172 run with a calendar whose cache already holds c
CalcLocalsFrom(e, c) ==
    Locals6(e, Locals5(e, Locals4(e, Locals3(e, Locals2(e, Locals1From(e, c))))))

calculate_from(e, c) == ResultOf(e, CalcLocalsFrom(e, c))

-----------------------------------------------------------------------------
(* A caller of working_seconds: the call runs one loop iteration per step. *)

WsTimes == 0..WsMaxTime
WsDays == 0..DateOf(WsMaxTime)
WsYears == 0..YearOf(DateOf(WsMaxTime))

\* the provider's data for a set of holidays: per year, the holidays of that year
ProviderOf(hol, years) == [y \in years |-> {d \in hol : YearOf(d) = y}]

HolidaySets(days) == {h \in SUBSET days : Cardinality(h) <= MaxHolidays}

WsFrame == [cursor |-> cursor, total |-> total, iters |-> iters, cache |-> cache]

CalcUnused ==
    /\ entity = None /\ cpc = "unused" /\ res = None /\ memo = None

HfyUnused ==
    /\ h_pc = <<>> /\ h_year = <<>> /\ h_es = <<>> /\ h_ret = <<>>

IvUnused ==
    /\ xs = <<>> /\ window = <<0, 0>> /\ ipc = "unused" /\ clip_ret = None
    /\ merge_first = None /\ merge_ret = None /\ merge_twice = None
    /\ reordered = FALSE

WsUnused ==
    /\ wpc = "unused" /\ ws_start = 0 /\ ws_end = 0 /\ cursor = 0 /\ total = 0
    /\ iters = 0 /\ ws_ret = None

InitWS ==
    /\ \E hol \in HolidaySets(WsDays) : provider = ProviderOf(hol, WsYears)
    /\ cache = EmptyCache
    /\ wpc = "idle"
    /\ ws_start \in WsTimes
    /\ ws_end \in WsTimes
    /\ cursor = 0 /\ total = 0 /\ iters = 0
    /\ ws_ret = None
    /\ CalcUnused
    /\ IvUnused
    /\ HfyUnused

\* lines 45-49: the early return, or the loop's initialisation
WsEnter ==
    /\ wpc = "idle"
    /\ IF ws_end <= ws_start
       THEN /\ wpc' = "done"
            /\ ws_ret' = Some(0)
            /\ UNCHANGED <<cursor, total>>
       ELSE /\ wpc' = "loop"
            /\ cursor' = ws_start
            /\ total' = 0
            /\ UNCHANGED ws_ret
    /\ UNCHANGED <<hfyVars, provider, cache, ws_start, ws_end, iters, calcVars, ivVars>>

\* lines 52-62: one iteration of the day loop
WsIter ==
    /\ wpc = "loop"
    /\ WsCond(WsFrame, ws_end)
    /\ LET f == WsBody(WsFrame, ws_start, ws_end)
       IN  /\ cursor' = f.cursor
           /\ total' = f.total
           /\ iters' = f.iters
           /\ cache' = f.cache
    /\ UNCHANGED <<hfyVars, provider, wpc, ws_start, ws_end, ws_ret, calcVars, ivVars>>

\* line 52 false, line 64: return total
WsReturn ==
    /\ wpc = "loop"
    /\ ~WsCond(WsFrame, ws_end)
    /\ wpc' = "done"
    /\ ws_ret' = Some(total)
    /\ UNCHANGED <<hfyVars, provider, cache, ws_start, ws_end, cursor, total, iters, calcVars, ivVars>>

NextWS == WsEnter \/ WsIter \/ WsReturn

SpecWS == InitWS /\ [][NextWS]_vars

\* the call runs on its caller's thread, which keeps executing it: no await, no
\* lock and no I/O between line 45 and line 64
SpecWSFair == SpecWS /\ WF_vars(NextWS)

-----------------------------------------------------------------------------
(* A caller of calculate (cli.py:20-21, app_streamlit.py:295): it builds an  *)
(* EntityInput, adds stop records to it, and calls calculate.  With the      *)
(* bounds as written its timestamps span a Friday and the Saturday after    *)
(* it, in a year without holidays; the holiday lookup is exercised by the   *)
(* caller of working_seconds above.                                         *)

CalcTimes == CalcFirst..(CalcFirst + CalcSpan)
CalcDays == DateOf(CalcFirst)..DateOf(CalcFirst + CalcSpan)
CalcYears == 0..YearOf(DateOf(CalcFirst + CalcSpan))

\* one entity type of the SLA family, one of the OLA family, one of neither
EntityTypes == {"Provision", "Tarea", "Otro"}

\* models.py:8
StopTypes == {"Global", "Interna", "Externa"}

\* models.py:12-15
Stop(ty, s, e) == [stop_type |-> ty, start |-> s, end |-> e]

StopRecords == {Stop(ty, s, e) : ty \in StopTypes, s \in CalcTimes, e \in CalcTimes}

\* list.insert(pos - 1, rec)
InsertAt(seq, pos, rec) == SubSeq(seq, 1, pos - 1) \o <<rec>> \o SubSeq(seq, pos, Len(seq))

RemoveAt(seq, pos) == SubSeq(seq, 1, pos - 1) \o SubSeq(seq, pos + 1, Len(seq))

InitCalc ==
    /\ provider = ProviderOf({}, CalcYears)
    /\ cache = EmptyCache
    /\ WsUnused
    /\ IvUnused
    /\ HfyUnused
    /\ memo = None
    /\ \E ty \in EntityTypes, st \in CalcTimes, nw \in CalcTimes,
          en \in {None} \cup {Some(t) : t \in CalcTimes}, fin \in BOOLEAN :
          entity = [entity_type |-> ty, start |-> st, end |-> en,
                    is_finalized |-> fin, now |-> nw, stops |-> <<>>]
    /\ cpc = "input"
    /\ res = None

\* a stop record is added to the entity, at any position of its list
AddStop ==
    /\ cpc = "input"
    /\ Len(entity.stops) < MaxStops
    /\ \E rec \in StopRecords, pos \in 1..(Len(entity.stops) + 1) :
          entity' = [entity EXCEPT !.stops = InsertAt(entity.stops, pos, rec)]
    /\ res' = None
    /\ cpc' = "input"
    /\ UNCHANGED <<hfyVars, provider, cache, wsVars, ivVars, memo>>

\* res = calculate(entity); the calendar of the call is local to it
Calculate ==
    /\ cpc = "input"
    /\ res' = Some(calculate(entity))
    /\ cpc' = "done"
    /\ UNCHANGED <<hfyVars, provider, cache, wsVars, ivVars, entity, memo>>

Next == AddStop \/ Calculate

Init == InitCalc

Spec == Init /\ [][Next]_vars

-----------------------------------------------------------------------------
(* A caller that calls calculate on its entity, again later on the same     *)
(* entity, and on other entities before and in between (app_streamlit.py:295 *)
(* runs once per button press in one process).  Its timestamps span a       *)
(* Thursday and the Friday after it, in two different years, either of     *)
(* which may be a holiday.  cache is the cache of the calendar of the       *)
(* latest call: all that a call leaves behind besides its result.           *)

HistTimes == HistFirst..(HistFirst + HistSpan)
HistDays == DateOf(HistFirst)..DateOf(HistFirst + HistSpan)
HistYears == 0..YearOf(DateOf(HistFirst + HistSpan))

\* one entity type of the SLA family and one of the OLA family
HistEntityTypes == {"Provision", "Tarea"}

\* no stop, or one valid Global stop
HistStops == {<<>>} \cup {<<Stop("Global", s, e)>> : s \in HistTimes, e \in HistTimes}

\* models.py:18-25, with the finalized/end pairing the adapters accept
\* (app_streamlit.py:120-122)
HistEntities ==
    {[entity_type |-> ty, start |-> st, end |-> en, is_finalized |-> en # None,
      now |-> nw, stops |-> ss] :
        ty \in HistEntityTypes, st \in HistTimes, nw \in HistTimes,
        en \in {None} \cup {Some(t) : t \in HistTimes},
        ss \in {s \in HistStops : s = <<>> \/ s[1].end > s[1].start}}

InitHist ==
    /\ \E hol \in HolidaySets(HistDays) : provider = ProviderOf(hol, HistYears)
    /\ cache = EmptyCache
    /\ WsUnused
    /\ IvUnused
    /\ HfyUnused
    /\ entity \in HistEntities
    /\ cpc = "input"
    /\ res = None
    /\ memo = None

\* the first call on the entity: res = calculate(entity)
HistFirstCall ==
    /\ cpc = "input"
    /\ res' = Some(calculate(entity))
    /\ memo' = res'
    /\ cache' = CalcLocals(entity).cache
    /\ cpc' = "called"
    /\ UNCHANGED <<hfyVars, provider, wsVars, ivVars, entity>>

\* a call on any other entity, whose result the caller does not keep
HistOtherCall ==
    /\ cpc \in {"input", "called"}
    /\ \E other \in HistEntities : cache' = CalcLocals(other).cache
    /\ UNCHANGED <<hfyVars, provider, wsVars, ivVars, entity, cpc, res, memo>>

\* a later call on the same entity: res = calculate(entity)
HistSecondCall ==
    /\ cpc = "called"
    /\ res' = Some(calculate(entity))
    /\ cache' = CalcLocals(entity).cache
    /\ cpc' = "again"
    /\ UNCHANGED <<hfyVars, provider, wsVars, ivVars, entity, memo>>

NextHist == HistFirstCall \/ HistOtherCall \/ HistSecondCall

SpecHist == InitHist /\ [][NextHist]_vars

-----------------------------------------------------------------------------
(* Callers of holidays_for_year on one calendar instance, each on its own    *)
(* thread.  The method takes no lock, so the threads interleave between its  *)
(* statements: the membership test of line 26, the read of line 27, the      *)
(* provider call of line 28, the write of line 29 and the read-back of       *)
(* line 30 are separate steps.                                               *)

Callers == 1..NumCallers
HfyYears == 0..(HfyYearCount - 1)
HfyDays == 0..(HfyYearCount * YearLen - 1)

InitHfy ==
    /\ \E hol \in HolidaySets(HfyDays) : provider = ProviderOf(hol, HfyYears)
    /\ cache = EmptyCache
    /\ WsUnused
    /\ CalcUnused
    /\ IvUnused
    /\ h_pc = [p \in Callers |-> "idle"]
    /\ h_year = [p \in Callers |-> 0]
    /\ h_es = [p \in Callers |-> None]
    /\ h_ret = [p \in Callers |-> None]

\* caller p enters holidays_for_year(year)
HfyCall(p) ==
    /\ h_pc[p] \in {"idle", "done"}
    /\ \E year \in HfyYears : h_year' = [h_year EXCEPT ![p] = year]
    /\ h_pc' = [h_pc EXCEPT ![p] = "check"]
    /\ h_es' = [h_es EXCEPT ![p] = None]
    /\ h_ret' = [h_ret EXCEPT ![p] = None]
    /\ UNCHANGED <<provider, cache, wsVars, calcVars, ivVars>>

\* line 26: if year in self._cache
HfyCheck(p) ==
    /\ h_pc[p] = "check"
    /\ h_pc' = [h_pc EXCEPT ![p] = IF h_year[p] \in DOMAIN cache THEN "hit" ELSE "miss"]
    /\ UNCHANGED <<provider, cache, wsVars, calcVars, ivVars, h_year, h_es, h_ret>>

\* line 27: return self._cache[year]; a KeyError if the entry is gone
HfyHit(p) ==
    /\ h_pc[p] = "hit"
    /\ IF h_year[p] \in DOMAIN cache
       THEN /\ h_ret' = [h_ret EXCEPT ![p] = Some(cache[h_year[p]])]
            /\ h_pc' = [h_pc EXCEPT ![p] = "done"]
       ELSE /\ h_pc' = [h_pc EXCEPT ![p] = "raised"]
            /\ UNCHANGED h_ret
    /\ UNCHANGED <<provider, cache, wsVars, calcVars, ivVars, h_year, h_es>>

\* line 28 and the right-hand side of line 29: set(es.keys())
HfyCompute(p) ==
    /\ h_pc[p] = "miss"
    /\ h_es' = [h_es EXCEPT ![p] = Some(ProviderSet(h_year[p]))]
    /\ h_pc' = [h_pc EXCEPT ![p] = "write"]
    /\ UNCHANGED <<provider, cache, wsVars, calcVars, ivVars, h_year, h_ret>>

\* line 29: self._cache[year] = ...
HfyWrite(p) ==
    /\ h_pc[p] = "write"
    /\ cache' = CacheWrite(cache, h_year[p], Get(h_es[p]))
    /\ h_pc' = [h_pc EXCEPT ![p] = "readback"]
    /\ UNCHANGED <<provider, wsVars, calcVars, ivVars, h_year, h_es, h_ret>>

\* line 30: return self._cache[year]; a KeyError if the entry is gone
HfyReadBack(p) ==
    /\ h_pc[p] = "readback"
    /\ IF h_year[p] \in DOMAIN cache
       THEN /\ h_ret' = [h_ret EXCEPT ![p] = Some(cache[h_year[p]])]
            /\ h_pc' = [h_pc EXCEPT ![p] = "done"]
       ELSE /\ h_pc' = [h_pc EXCEPT ![p] = "raised"]
            /\ UNCHANGED h_ret
    /\ UNCHANGED <<provider, cache, wsVars, calcVars, ivVars, h_year, h_es>>

NextHfy ==
    \E p \in Callers :
        \/ HfyCall(p)
        \/ HfyCheck(p)
        \/ HfyHit(p)
        \/ HfyCompute(p)
        \/ HfyWrite(p)
        \/ HfyReadBack(p)

SpecHfy == InitHfy /\ [][NextHfy]_vars

-----------------------------------------------------------------------------
(* A caller of the interval engine: it holds a list of intervals, clips an  *)
(* interval to a window, merges the list, merges the result again, and      *)
(* reorders the list before merging once more.                              *)

IvTimes == 0..IvMaxTime

Intervals == {Interval(s, e) : s \in IvTimes, e \in IvTimes}

RECURSIVE ListsUpTo(_, _)
ListsUpTo(S, n) ==
    IF n = 0 THEN {<<>>}
    ELSE LET shorter == ListsUpTo(S, n - 1)
         IN  shorter \cup {Append(l, x) : l \in {q \in shorter : Len(q) = n - 1}, x \in S}

InitIv ==
    /\ provider = ProviderOf({}, {0})
    /\ cache = EmptyCache
    /\ WsUnused
    /\ CalcUnused
    /\ HfyUnused
    /\ xs \in ListsUpTo(Intervals, MaxIvs)
    /\ window = <<0, 0>>
    /\ ipc = "input"
    /\ clip_ret = None
    /\ merge_first = None
    /\ merge_ret = None
    /\ merge_twice = None
    /\ reordered = FALSE

\* clip_ret = xs[1].clip(window_start, window_end), for a caller holding one interval
ClipCall ==
    /\ ipc = "input"
    /\ Len(xs) = 1
    /\ \E window_start \in IvTimes, window_end \in IvTimes :
          /\ window' = <<window_start, window_end>>
          /\ clip_ret' = Some(clip(xs[1], window_start, window_end))
    /\ ipc' = "clipped"
    /\ UNCHANGED <<hfyVars, provider, cache, wsVars, calcVars, xs, merge_first, merge_ret, merge_twice, reordered>>

\* merge_ret = merge_intervals(xs)
MergeCall ==
    /\ ipc = "input"
    /\ merge_ret' = Some(merge_intervals(xs))
    /\ merge_first' = IF merge_first = None THEN merge_ret' ELSE merge_first
    /\ ipc' = "merged"
    /\ UNCHANGED <<hfyVars, provider, cache, wsVars, calcVars, xs, window, clip_ret, merge_twice, reordered>>

\* merge_twice = merge_intervals(merge_ret)
MergeAgain ==
    /\ ipc = "merged"
    /\ merge_twice' = Some(merge_intervals(Get(merge_ret)))
    /\ ipc' = "remerged"
    /\ UNCHANGED <<hfyVars, provider, cache, wsVars, calcVars, xs, window, clip_ret, merge_first, merge_ret, reordered>>

\* the caller swaps two neighbours of its list and starts over
Reorder ==
    /\ ipc = "remerged"
    /\ \E k \in 1..(Len(xs) - 1) :
          /\ xs[k] # xs[k + 1]
          /\ xs' = [xs EXCEPT ![k] = xs[k + 1], ![k + 1] = xs[k]]
    /\ merge_ret' = None
    /\ merge_twice' = None
    /\ reordered' = TRUE
    /\ ipc' = "input"
    /\ UNCHANGED <<hfyVars, provider, cache, wsVars, calcVars, window, clip_ret, merge_first>>

NextIv == ClipCall \/ MergeCall \/ MergeAgain \/ Reorder

SpecIv == InitIv /\ [][NextIv]_vars

\* the interval engine's caller and calculate's caller, side by side
InitIvCalc == InitIv \/ InitCalc

NextIvCalc == NextIv \/ Next

SpecIvCalc == InitIvCalc /\ [][NextIvCalc]_vars

-----------------------------------------------------------------------------
(* C1 *)

\* a working day as the calendar's contract states it, read off the provider's data
WorkingDayOfProvider(d) == Weekday(d) \in 0..4 /\ d \notin ProviderSet(YearOf(d))

WorkingTicks(start, end) ==
    {t \in start..(end - 1) : WorkingDayOfProvider(DateOf(t))}

\* C1: when working_seconds(start, end) has returned, its value is the number of
\* ticks of [start, end) whose calendar day is a working day (Monday to Friday and
\* not a holiday of that day's year); it is 0 when end <= start.
C1_WorkingSecondsCountsWorkingTicks ==
    wpc = "done" =>
        /\ Get(ws_ret) = Cardinality(WorkingTicks(ws_start, ws_end))
        /\ (ws_end <= ws_start => Get(ws_ret) = 0)
        /\ Get(ws_ret) = working_seconds(ws_start, ws_end, EmptyCache)

\* C1 witness: a returned call whose interval holds working ticks, a weekend tick
\* and a tick of a weekday holiday
C1_Witness ==
    /\ wpc = "done"
    /\ Get(ws_ret) > 0
    /\ \E t \in ws_start..(ws_end - 1) : Weekday(DateOf(t)) >= 5
    /\ \E t \in ws_start..(ws_end - 1) :
          Weekday(DateOf(t)) < 5 /\ DateOf(t) \in ProviderSet(YearOf(DateOf(t)))

-----------------------------------------------------------------------------
(* C2 *)

\* the ticks of the half-open interval [s, e)
Ticks(s, e) == s..(e - 1)

\* C2: Interval.clip returns None exactly when the interval and the window share no
\* tick (their intersection is empty or of zero length); otherwise it returns
\* exactly [max(start, window_start), min(end, window_end)], which has end > start.
C2_ClipIsIntersection ==
    ipc = "clipped" =>
        LET iv == xs[1]
            r == Get(clip_ret)
            common == Ticks(iv.start, iv.end) \cap Ticks(window[1], window[2])
        IN  /\ (r = None) <=> (common = {})
            /\ (r = None) <=> (\/ iv.end <= window[1]
                               \/ iv.start >= window[2]
                               \/ Min(iv.end, window[2]) <= Max(iv.start, window[1]))
            /\ r # None =>
                  /\ Get(r) = Interval(Max(iv.start, window[1]), Min(iv.end, window[2]))
                  /\ Get(r).end > Get(r).start
                  /\ Ticks(Get(r).start, Get(r).end) = common

\* C2 witness: a clip call that cut the interval on both sides
C2_Witness ==
    /\ ipc = "clipped"
    /\ Get(clip_ret) # None
    /\ Get(Get(clip_ret)).start > xs[1].start
    /\ Get(Get(clip_ret)).end < xs[1].end

-----------------------------------------------------------------------------
(* C3 *)

\* C3: merge_intervals gives the same list for a list and for every reordering of
\* it, and merging its own output changes nothing.
C3_MergeIdempotentOrderIndependent ==
    /\ ipc \in {"merged", "remerged"} => merge_ret = merge_first
    /\ ipc = "remerged" => merge_twice = merge_ret

\* C3 witness: a reordered list with an invalid interval and two intervals of equal
\* start, merged into fewer intervals and merged again
C3_Witness ==
    /\ ipc = "remerged"
    /\ reordered
    /\ \E k \in 1..Len(xs) : ~is_valid(xs[k])
    /\ \E j, k \in 1..Len(xs) :
          j < k /\ xs[j].start = xs[k].start /\ xs[j] # xs[k]
          /\ is_valid(xs[j]) /\ is_valid(xs[k])
    /\ Len(Get(merge_ret)) = 1

-----------------------------------------------------------------------------
(* C4 *)

\* valid, strictly ascending by start, no two consecutive intervals overlap or touch
Canonical(seq, key(_)) ==
    /\ \A k \in 1..Len(seq) : key(seq[k].end) > key(seq[k].start)
    /\ \A k \in 1..(Len(seq) - 1) :
          /\ key(seq[k + 1].start) > key(seq[k].start)
          /\ key(seq[k + 1].start) > key(seq[k].end)

Identity(t) == t

StopsTree == Get(res).explain.stops

\* C4: every list merge_intervals returns, and every merged_intervals list of the
\* evidence tree of calculate, holds only valid intervals, is strictly ascending by
\* start, and each interval starts strictly after the previous one ends.
C4_MergedCanonical ==
    /\ ipc \in {"merged", "remerged"} => Canonical(Get(merge_ret), Identity)
    /\ cpc = "done" =>
          /\ Canonical(StopsTree.sla_real.merged_intervals, parse_dt)
          /\ Canonical(StopsTree.ola_real.merged_intervals, parse_dt)
          /\ Canonical(StopsTree.sla_to_date.merged_intervals, parse_dt)
          /\ Canonical(StopsTree.ola_to_date.merged_intervals, parse_dt)

\* calculate merged two touching stops of a finalized entity into one interval of
\* the OLA real window
C4_WitnessCalculate ==
    /\ cpc = "done"
    /\ Len(entity.stops) = 2
    /\ is_valid(entity.stops[1]) /\ is_valid(entity.stops[2])
    /\ entity.stops[2].end = entity.stops[1].start
    /\ Len(StopsTree.ola_real.merged_intervals) = 1
    /\ Len(StopsTree.ola_real.evidence) = 2
    /\ \A k \in 1..2 : StopsTree.ola_real.evidence[k].action = "kept"

\* C4 witness: merge_intervals was handed three valid intervals out of order, each
\* touching the next, and folded them into one
C4_Witness ==
    /\ ipc = "merged"
    /\ Len(xs) = 3
    /\ \A k \in 1..3 : is_valid(xs[k])
    /\ xs[2].end = xs[1].start
    /\ xs[1].end = xs[3].start
    /\ Len(Get(merge_ret)) = 1

-----------------------------------------------------------------------------
(* C5 *)

\* the number of working ticks of [start, end)
WorkingCount(start, end) == Cardinality(WorkingTicks(start, end))

\* the entity's finalized/end pairing is consistent
WellFormed(e) == e.is_finalized <=> (e.end # None)

\* the working ticks of the window [window_start, w_end) that some valid stop of
\* the family covers
StoppedTicks(e, stop_types, w_end) ==
    {t \in WorkingTicks(e.start, w_end) :
        \E k \in 1..Len(e.stops) :
            /\ e.stops[k].stop_type \in stop_types
            /\ e.stops[k].start <= t
            /\ t < e.stops[k].end}

StopCost(e, stop_types, w_end) == Cardinality(StoppedTicks(e, stop_types, w_end))

\* C5: for a well-formed entity, ttd is the working time of [start, now) and ttm
\* that of [start, end) when finalized (absent otherwise); a family's to-date value
\* is max(0, ttd - its to-date stop cost) when the entity type is in the family, its
\* real value max(0, ttm - its real stop cost) when moreover the entity is
\* finalized, and both are absent otherwise; the stop cost of a family in a window
\* is the working time its stops cover inside the window, each tick counted once.
C5_KpiDerivation ==
    (cpc = "done" /\ WellFormed(entity)) =>
        LET e == entity
            r == Get(res)
            fin == e.is_finalized
            sla == e.entity_type \in SLA_ENTITY_TYPES
            ola == e.entity_type \in OLA_ENTITY_TYPES
            ttd == WorkingCount(e.start, e.now)
            ttm == WorkingCount(e.start, Get(e.end))
            sla_td == StopCost(e, SLA_STOP_TYPES, e.now)
            ola_td == StopCost(e, OLA_STOP_TYPES, e.now)
            sla_re == StopCost(e, SLA_STOP_TYPES, Get(e.end))
            ola_re == StopCost(e, OLA_STOP_TYPES, Get(e.end))
        IN  /\ r.ttd_seconds = ttd
            /\ r.ttm_seconds = IF fin THEN Some(ttm) ELSE None
            /\ r.sla_to_date_seconds = IF sla THEN Some(Max(0, ttd - sla_td)) ELSE None
            /\ r.ola_to_date_seconds = IF ola THEN Some(Max(0, ttd - ola_td)) ELSE None
            /\ r.sla_real_seconds =
                  IF fin /\ sla THEN Some(Max(0, ttm - sla_re)) ELSE None
            /\ r.ola_real_seconds =
                  IF fin /\ ola THEN Some(Max(0, ttm - ola_re)) ELSE None
            /\ r.explain.stops.sla_to_date.working_seconds = sla_td
            /\ r.explain.stops.ola_to_date.working_seconds = ola_td
            /\ fin => /\ r.explain.stops.sla_real.working_seconds = sla_re
                       /\ r.explain.stops.ola_real.working_seconds = ola_re

\* C5 witness: a finalized entity of the OLA family with two overlapping stops, whose
\* real value is smaller than ttm and whose to-date value is smaller than ttd
C5_Witness ==
    /\ cpc = "done"
    /\ WellFormed(entity)
    /\ entity.is_finalized
    /\ entity.entity_type \in OLA_ENTITY_TYPES
    /\ Len(entity.stops) = 2
    /\ entity.stops[1].start < entity.stops[2].start
    /\ entity.stops[2].start < entity.stops[1].end
    /\ Get(Get(res).ola_real_seconds) > 0
    /\ Get(Get(res).ola_real_seconds) < Get(Get(res).ttm_seconds)
    /\ Get(Get(res).ola_to_date_seconds) < Get(res).ttd_seconds

-----------------------------------------------------------------------------
(* C6 *)

NonNegative(o) == o = None \/ Get(o) >= 0

\* C6: every numeric field of a CalcResult that is present is >= 0, and so is every
\* family/window working_seconds total of its evidence tree.
C6_NothingNegative ==
    cpc = "done" =>
        LET r == Get(res)
        IN  /\ r.ttd_seconds >= 0
            /\ NonNegative(r.ttm_seconds)
            /\ r.stops_sla_seconds >= 0
            /\ r.stops_ola_seconds >= 0
            /\ NonNegative(r.sla_real_seconds)
            /\ NonNegative(r.sla_to_date_seconds)
            /\ NonNegative(r.ola_real_seconds)
            /\ NonNegative(r.ola_to_date_seconds)
            /\ r.explain.stops.sla_real.working_seconds >= 0
            /\ r.explain.stops.ola_real.working_seconds >= 0
            /\ r.explain.stops.sla_to_date.working_seconds >= 0
            /\ r.explain.stops.ola_to_date.working_seconds >= 0
            /\ NonNegative(r.explain.durations.ttm_working_seconds)
            /\ r.explain.durations.ttd_working_seconds >= 0

\* C6 witness: a finalized entity with now and end before start and a stop longer
\* than both windows
C6_Witness ==
    /\ cpc = "done"
    /\ entity.is_finalized /\ entity.end # None
    /\ entity.entity_type \in SLA_ENTITY_TYPES
    /\ entity.now < entity.start
    /\ Get(entity.end) < entity.start
    /\ \E k \in 1..Len(entity.stops) :
          /\ entity.stops[k].stop_type = "Global"
          /\ entity.stops[k].start < Get(entity.end)
          /\ entity.stops[k].end > entity.start
    /\ Get(Get(res).sla_real_seconds) = 0
    /\ Get(Get(res).sla_to_date_seconds) = 0

-----------------------------------------------------------------------------
(* C7 *)

\* the evidence lists calculate computes for the entity: the two to-date lists, and
\* the two real lists when the real window exists; each with its family's stop types
\* and its window's end
EvidenceLists(e, r) ==
    {[node |-> r.explain.stops.sla_to_date, types |-> SLA_STOP_TYPES, w_end |-> e.now],
     [node |-> r.explain.stops.ola_to_date, types |-> OLA_STOP_TYPES, w_end |-> e.now]}
    \cup (IF RealEnd(e) # None
          THEN {[node |-> r.explain.stops.sla_real, types |-> SLA_STOP_TYPES,
                 w_end |-> Get(e.end)],
                [node |-> r.explain.stops.ola_real, types |-> OLA_STOP_TYPES,
                 w_end |-> Get(e.end)]}
          ELSE {})

\* the evidence entry is about the stop record: same type, same original bounds
EntryIsFor(entry, s) ==
    /\ entry.stop_type = s.stop_type
    /\ parse_dt(entry.original.start) = s.start
    /\ parse_dt(entry.original.end) = s.end

\* the list holds one entry per record of the sequence, in the sequence's order
OneEntryPerRecord(evidence, records) ==
    /\ Len(evidence) = Len(records)
    /\ \A k \in 1..Len(records) : EntryIsFor(evidence[k], records[k])

RECURSIVE FamilyStops(_, _)
FamilyStops(stops, stop_types) ==
    IF stops = <<>> THEN <<>>
    ELSE (IF Head(stops).stop_type \in stop_types THEN <<Head(stops)>> ELSE <<>>)
         \o FamilyStops(Tail(stops), stop_types)

\* C7 as stated: every evidence list calculate computes holds exactly one entry for
\* each record of entity.stops, in input order.
C7_Original ==
    cpc = "done" =>
        \A l \in EvidenceLists(entity, Get(res)) :
            OneEntryPerRecord(l.node.evidence, entity.stops)

\* C7 amended: every evidence list calculate computes holds exactly one entry for
\* each record of entity.stops whose type is in the list's family's stop-type set,
\* in input order, whether kept, clipped, discarded or rejected; records of other
\* types have no entry in that list.
C7_OneEntryPerFamilyStop ==
    cpc = "done" =>
        \A l \in EvidenceLists(entity, Get(res)) :
            OneEntryPerRecord(l.node.evidence, FamilyStops(entity.stops, l.types))

\* C7 witness: a finalized entity whose two stops are a rejected Interna stop followed
\* by a Global stop: two entries in the OLA lists, one in the SLA lists
C7_Witness ==
    /\ cpc = "done"
    /\ RealEnd(entity) # None
    /\ Len(entity.stops) = 2
    /\ entity.stops[1].stop_type = "Interna"
    /\ entity.stops[1].end <= entity.stops[1].start
    /\ entity.stops[2].stop_type = "Global"
    /\ Len(StopsTree.ola_real.evidence) = 2
    /\ Len(StopsTree.sla_real.evidence) = 1
    /\ StopsTree.ola_to_date.evidence[1].action = "rejected_invalid_interval"

-----------------------------------------------------------------------------
(* C8 *)

\* the action the stop's geometry determines in the window [window_start, w_end]
GeometryAction(s, window_start, w_end) ==
    IF s.end <= s.start THEN "rejected_invalid_interval"
    ELSE IF Ticks(s.start, s.end) \cap Ticks(window_start, w_end) = {}
         THEN "discarded_outside_window"
         ELSE IF window_start <= s.start /\ s.end <= w_end THEN "kept"
              ELSE "clipped_to_window"

Feeds == {"kept", "clipped_to_window"}

\* the ticks covered by a list of intervals given as formatted bounds
CoveredTicks(seq) ==
    UNION {Ticks(parse_dt(seq[k].start), parse_dt(seq[k].end)) : k \in 1..Len(seq)}

\* the ticks covered by the clipped bounds of the kept and clipped entries
FedTicks(ev) ==
    UNION {Ticks(parse_dt(ev[k].clipped.start), parse_dt(ev[k].clipped.end)) :
             k \in {j \in 1..Len(ev) : ev[j].action \in Feeds}}

\* C8: in every evidence list, the entry of each stop of the family carries the one
\* action its geometry determines, with the original bounds, and for kept and
\* clipped_to_window the clipped bounds max(start, window_start), min(end, w_end);
\* the merged intervals cover exactly the clipped bounds of the kept and clipped stops.
C8_ActionByGeometry ==
    cpc = "done" =>
        \A l \in EvidenceLists(entity, Get(res)) :
            LET fam == FamilyStops(entity.stops, l.types)
                ev == l.node.evidence
            IN  /\ Len(ev) = Len(fam)
                /\ \A k \in 1..Len(fam) :
                      /\ EntryIsFor(ev[k], fam[k])
                      /\ ev[k].action = GeometryAction(fam[k], entity.start, l.w_end)
                      /\ ev[k].action \in Feeds =>
                            /\ parse_dt(ev[k].clipped.start)
                                 = Max(fam[k].start, entity.start)
                            /\ parse_dt(ev[k].clipped.end) = Min(fam[k].end, l.w_end)
                      /\ ev[k].action \in Feeds <=> "clipped" \in DOMAIN ev[k]
                      /\ ev[k].action = "kept" =>
                            ev[k].clipped = ev[k].original
                /\ CoveredTicks(l.node.merged_intervals) = FedTicks(ev)

\* C8 witness: one to-date list of a finalized entity holds a rejected, a discarded,
\* and a clipped stop, and its real list a kept one
C8_Witness ==
    /\ cpc = "done"
    /\ RealEnd(entity) # None
    /\ \E k \in 1..Len(StopsTree.ola_to_date.evidence) :
          StopsTree.ola_to_date.evidence[k].action = "clipped_to_window"
    /\ \E k \in 1..Len(StopsTree.ola_to_date.evidence) :
          StopsTree.ola_to_date.evidence[k].action = "discarded_outside_window"
    /\ \E k \in 1..Len(StopsTree.ola_real.evidence) :
          StopsTree.ola_real.evidence[k].action = "kept"

-----------------------------------------------------------------------------
(* C9 *)

\* the record cannot count in the window: it shares no tick with it
OutsideWindow(s, window_start, w_end) ==
    Ticks(s.start, s.end) \cap Ticks(window_start, w_end) = {}

\* a malformed stop record of the entity: end <= start, or entirely outside the
\* to-date window and, when there is one, the real window
Malformed(e, s) ==
    \/ s.end <= s.start
    \/ /\ OutsideWindow(s, e.start, e.now)
       /\ RealEnd(e) # None => OutsideWindow(s, e.start, Get(e.end))

\* the numeric fields of a CalcResult
Numbers(r) ==
    <<r.ttd_seconds, r.ttm_seconds, r.stops_sla_seconds, r.stops_ola_seconds,
      r.sla_real_seconds, r.sla_to_date_seconds, r.ola_real_seconds,
      r.ola_to_date_seconds, r.explain.durations>>

\* the evidence list with the record is the one without it plus, when the record's
\* type is in the family, one rejected or discarded entry for the record at its place
OnlyEntryAdded(with, without, s, before, stop_types, computed) ==
    /\ with.merged_intervals = without.merged_intervals
    /\ with.working_seconds = without.working_seconds
    /\ IF s.stop_type \in stop_types /\ computed
       THEN LET at == Len(FamilyStops(before, stop_types)) + 1
            IN  /\ Len(with.evidence) = Len(without.evidence) + 1
                /\ RemoveAt(with.evidence, at) = without.evidence
                /\ EntryIsFor(with.evidence[at], s)
                /\ with.evidence[at].action =
                      IF s.end <= s.start THEN "rejected_invalid_interval"
                      ELSE "discarded_outside_window"
                /\ DOMAIN with.evidence[at] = {"stop_type", "original", "action"}
       ELSE with.evidence = without.evidence

\* C9: calculate returns for every entity, and for every malformed record of
\* entity.stops the result is the result for the entity without that record, except
\* for the record's own rejected or discarded evidence entries.
C9_MalformedStopAbsorbed ==
    cpc = "done" =>
        /\ res # None
        /\ \A p \in 1..Len(entity.stops) :
              Malformed(entity, entity.stops[p]) =>
                LET s == entity.stops[p]
                    before == SubSeq(entity.stops, 1, p - 1)
                    r == Get(res)
                    r0 == calculate([entity EXCEPT !.stops = RemoveAt(entity.stops, p)])
                IN  /\ Numbers(r) = Numbers(r0)
                    /\ r.explain.entity = r0.explain.entity
                    /\ r.explain.windows = r0.explain.windows
                    /\ OnlyEntryAdded(r.explain.stops.sla_to_date,
                                      r0.explain.stops.sla_to_date, s, before,
                                      SLA_STOP_TYPES, TRUE)
                    /\ OnlyEntryAdded(r.explain.stops.ola_to_date,
                                      r0.explain.stops.ola_to_date, s, before,
                                      OLA_STOP_TYPES, TRUE)
                    /\ OnlyEntryAdded(r.explain.stops.sla_real,
                                      r0.explain.stops.sla_real, s, before,
                                      SLA_STOP_TYPES, RealEnd(entity) # None)
                    /\ OnlyEntryAdded(r.explain.stops.ola_real,
                                      r0.explain.stops.ola_real, s, before,
                                      OLA_STOP_TYPES, RealEnd(entity) # None)

\* C9 witness: a finalized SLA entity with a stop that counts and, before it, a Global
\* stop with end = start inside the window; the real value is still below ttm
C9_Witness ==
    /\ cpc = "done"
    /\ RealEnd(entity) # None
    /\ entity.entity_type \in SLA_ENTITY_TYPES
    /\ Len(entity.stops) = 2
    /\ entity.stops[1].stop_type = "Global"
    /\ entity.stops[1].end = entity.stops[1].start
    /\ entity.stops[1].start > entity.start
    /\ entity.stops[1].start < Get(entity.end)
    /\ entity.stops[2].stop_type = "Global"
    /\ StopsTree.sla_real.evidence[1].action = "rejected_invalid_interval"
    /\ StopsTree.sla_real.evidence[2].action = "kept"
    /\ Get(Get(res).sla_real_seconds) < Get(Get(res).ttm_seconds)

-----------------------------------------------------------------------------
(* C10 *)

\* is_finalized with end absent, or end present without is_finalized
InconsistentPairing(e) == ~WellFormed(e)

\* C10 as stated: for an entity with an inconsistent finalized/end pairing calculate
\* returns no CalcResult.
C10_Original == InconsistentPairing(entity) => res = None

\* C10 amended: for an entity with an inconsistent finalized/end pairing calculate
\* does not fail: it returns a complete CalcResult that treats the entity as open;
\* ttm and the real values are absent, the real evidence is empty with cost 0, and
\* ttd, the to-date values and the effective stop totals are those of the to-date
\* window.
C10_InconsistentPairingTreatedAsOpen ==
    (cpc = "done" /\ InconsistentPairing(entity)) =>
        /\ res # None
        /\ LET e == entity
               r == Get(res)
               ttd == WorkingCount(e.start, e.now)
               sla_td == StopCost(e, SLA_STOP_TYPES, e.now)
               ola_td == StopCost(e, OLA_STOP_TYPES, e.now)
           IN  /\ r.ttd_seconds = ttd
               /\ r.ttm_seconds = None
               /\ r.sla_real_seconds = None
               /\ r.ola_real_seconds = None
               /\ r.explain.stops.sla_real
                    = [evidence |-> <<>>, merged_intervals |-> <<>>, working_seconds |-> 0]
               /\ r.explain.stops.ola_real
                    = [evidence |-> <<>>, merged_intervals |-> <<>>, working_seconds |-> 0]
               /\ r.stops_sla_seconds = sla_td
               /\ r.stops_ola_seconds = ola_td
               /\ r.sla_to_date_seconds =
                     IF e.entity_type \in SLA_ENTITY_TYPES
                     THEN Some(Max(0, ttd - sla_td)) ELSE None
               /\ r.ola_to_date_seconds =
                     IF e.entity_type \in OLA_ENTITY_TYPES
                     THEN Some(Max(0, ttd - ola_td)) ELSE None

\* C10 witness: calculate returned for an entity that is not finalized and has an end,
\* and for one stop before that end the to-date value is below ttd
C10_Witness ==
    /\ cpc = "done"
    /\ ~entity.is_finalized
    /\ entity.end # None
    /\ entity.entity_type \in SLA_ENTITY_TYPES
    /\ res # None
    /\ Len(entity.stops) = 1
    /\ entity.stops[1].end <= Get(entity.end)
    /\ Get(Get(res).sla_to_date_seconds) < Get(res).ttd_seconds

-----------------------------------------------------------------------------
(* C11 *)

\* the caches a calendar can hold: for some years, the provider's set of each
TruthfulCaches(years) ==
    {[y \in Y |-> ProviderSet(y)] : Y \in SUBSET years}

\* C11: a later calculate call on the same entity returns the CalcResult of the
\* first call, numeric fields and evidence tree alike, whatever calls on other
\* entities were made before or in between; and that result is the one the call
\* computes with a calendar whose cache already holds any set of years.
C11_DeterministicHistoryIndependent ==
    /\ cpc = "again" => res = memo
    /\ cache \in TruthfulCaches(HistYears)
    /\ res # None =>
          \A c \in TruthfulCaches(HistYears) : calculate_from(entity, c) = Get(res)

\* C11 witness: the second call on a finalized entity whose windows hold a weekday
\* holiday and a stop on a working day has returned the result of the first call
C11_Witness ==
    /\ cpc = "again"
    /\ res = memo
    /\ entity.is_finalized
    /\ entity.stops # <<>>
    /\ \E d \in HistDays : d \in ProviderSet(YearOf(d)) /\ Weekday(d) < 5
    /\ Get(res).ttd_seconds > 0
    /\ Get(res).stops_sla_seconds > 0
    /\ Get(res).ttd_seconds < entity.now - entity.start

-----------------------------------------------------------------------------
(* C12 *)

\* every returned call returned the provider's set for its year, and no call failed
HfyReturnsProviderSet ==
    \A p \in Callers :
        /\ h_pc[p] # "raised"
        /\ h_pc[p] = "done" =>
              /\ h_ret[p] # None
              /\ Get(h_ret[p]) = ProviderSet(h_year[p])

\* every entry of the cache is the provider's set for its year
CacheHoldsProviderSets ==
    \A y \in DOMAIN cache : cache[y] = ProviderSet(y)

\* a step removes no entry of the cache and changes none
CacheOnlyGrows ==
    \A y \in DOMAIN cache : y \in DOMAIN cache' /\ cache'[y] = cache[y]

\* C12: under every interleaving of the steps of holidays_for_year calls by several
\* callers on one calendar, every call for year y returns the provider's set for y
\* and none fails; every cache entry is the provider's set for its year; and no step
\* removes or changes an entry.
C12_ConcurrentCachePopulationSafe ==
    /\ [](HfyReturnsProviderSet /\ CacheHoldsProviderSets)
    /\ [][CacheOnlyGrows]_vars

\* C12 witness: two callers both missed the same year with holidays, both computed and
\* wrote its set, the second write landing on the first, and both have returned; the
\* cache holds another year too
C12_Witness ==
    /\ \A p \in Callers : h_pc[p] = "done" /\ h_es[p] # None
    /\ \A p, q \in Callers : h_year[p] = h_year[q]
    /\ ProviderSet(h_year[1]) # {}
    /\ Cardinality(DOMAIN cache) > 1

-----------------------------------------------------------------------------
(* C13 *)

\* the calendar days from start's date to end's date, both included
DaysSpanned(start, end) == DateOf(end) - DateOf(start) + 1

\* the iterations the loop has run and where its cursor stands
IterationCount ==
    /\ wpc = "loop" =>
          /\ iters <= DaysSpanned(ws_start, ws_end)
          /\ cursor = IF iters = 0 THEN ws_start
                      ELSE (DateOf(ws_start) + iters) * DayLen
    /\ wpc = "done" =>
          iters = IF ws_end > ws_start THEN DaysSpanned(ws_start, ws_end) ELSE 0

\* C13: every working_seconds call returns; when it does, its day loop has run
\* exactly one iteration per calendar day from start's date to end's date inclusive
\* if end > start and none if end <= start; after each iteration the cursor stands at
\* the midnight that follows the day the iteration handled.
C13_TerminatesAfterOneIterationPerDay ==
    /\ []IterationCount
    /\ <>(wpc = "done")

\* C13 witness: a call that started in the middle of a day and ended at a midnight
\* several days later has returned, the last iteration having handled end's day
C13_Witness ==
    /\ wpc = "done"
    /\ ws_start # DayStart(ws_start)
    /\ ws_end = DayStart(ws_end)
    /\ iters >= 4
    /\ iters = DaysSpanned(ws_start, ws_end)
    /\ cursor = ws_end + DayLen

-----------------------------------------------------------------------------
(* C14 *)

\* the present value is the plain difference base - stops
PlainDifference(kpi, base, stops) == kpi # None => Get(kpi) = base - stops

\* C14: in every CalcResult the SLA and the OLA to-date stop cost are <= ttd and,
\* when the real window exists, the SLA and the OLA real stop cost are <= ttm; so
\* every present value equals the plain difference of its base and its stop cost,
\* and the effective stop totals are <= the base of their window.
C14_StopCostWithinBase ==
    cpc = "done" =>
        LET r == Get(res)
            tree == r.explain.stops
            real == RealEnd(entity) # None
        IN  /\ tree.sla_to_date.working_seconds <= r.ttd_seconds
            /\ tree.ola_to_date.working_seconds <= r.ttd_seconds
            /\ PlainDifference(r.sla_to_date_seconds, r.ttd_seconds,
                               tree.sla_to_date.working_seconds)
            /\ PlainDifference(r.ola_to_date_seconds, r.ttd_seconds,
                               tree.ola_to_date.working_seconds)
            /\ real =>
                  /\ r.ttm_seconds # None
                  /\ tree.sla_real.working_seconds <= Get(r.ttm_seconds)
                  /\ tree.ola_real.working_seconds <= Get(r.ttm_seconds)
                  /\ PlainDifference(r.sla_real_seconds, Get(r.ttm_seconds),
                                     tree.sla_real.working_seconds)
                  /\ PlainDifference(r.ola_real_seconds, Get(r.ttm_seconds),
                                     tree.ola_real.working_seconds)
                  /\ r.stops_sla_seconds <= Get(r.ttm_seconds)
                  /\ r.stops_ola_seconds <= Get(r.ttm_seconds)
            /\ ~real =>
                  /\ r.stops_sla_seconds <= r.ttd_seconds
                  /\ r.stops_ola_seconds <= r.ttd_seconds

\* C14 witness: a finalized SLA entity whose end precedes now, with a Global stop that
\* starts no later than the entity and runs on past its end: the real stop cost equals
\* ttm > 0, the to-date stop cost equals ttd > ttm, and both values are 0
C14_Witness ==
    /\ cpc = "done"
    /\ RealEnd(entity) # None
    /\ entity.entity_type \in SLA_ENTITY_TYPES
    /\ Get(entity.end) < entity.now
    /\ \E k \in 1..Len(entity.stops) :
          /\ entity.stops[k].stop_type = "Global"
          /\ entity.stops[k].start <= entity.start
          /\ entity.stops[k].end > Get(entity.end)
    /\ Get(Get(res).ttm_seconds) > 0
    /\ Get(res).ttd_seconds > Get(Get(res).ttm_seconds)
    /\ StopsTree.sla_real.working_seconds = Get(Get(res).ttm_seconds)
    /\ StopsTree.sla_to_date.working_seconds = Get(res).ttd_seconds
    /\ Get(Get(res).sla_real_seconds) = 0
    /\ Get(Get(res).sla_to_date_seconds) = 0

-----------------------------------------------------------------------------
(* C15 *)

\* a <= b for two values of the same field, absent together
LeqIfPresent(a, b) ==
    /\ (a = None) <=> (b = None)
    /\ a # None => Get(a) <= Get(b)

\* C15: for the entity of a calculate call and every later now, calculate on the
\* same entity with only now replaced returns a ttd, an SLA to-date value and an OLA
\* to-date value that are each >= those of the call, whatever the stop records are.
C15_ToDateNeverDecreases ==
    cpc = "done" =>
        \A now2 \in CalcTimes :
            now2 >= entity.now =>
                LET r1 == Get(res)
                    r2 == calculate([entity EXCEPT !.now = now2])
                IN  /\ r1.ttd_seconds <= r2.ttd_seconds
                    /\ LeqIfPresent(r1.sla_to_date_seconds, r2.sla_to_date_seconds)
                    /\ LeqIfPresent(r1.ola_to_date_seconds, r2.ola_to_date_seconds)

\* C15 witness: an open OLA entity, whose now can still advance, with a stop that
\* starts before now and ends after it and a stop that lies wholly after now: the
\* to-date value is below ttd
C15_Witness ==
    /\ cpc = "done"
    /\ RealEnd(entity) = None
    /\ entity.entity_type \in OLA_ENTITY_TYPES
    /\ Len(entity.stops) = 2
    /\ entity.stops[1].start < entity.now
    /\ entity.stops[1].end > entity.now
    /\ entity.stops[2].start >= entity.now
    /\ entity.stops[2].end > entity.stops[2].start
    /\ entity.now < CalcFirst + CalcSpan
    /\ Get(res).ttd_seconds > 0
    /\ Get(Get(res).ola_to_date_seconds) < Get(res).ttd_seconds

-----------------------------------------------------------------------------
(* C16 *)

\* C16: the SLA stop types are among the OLA stop types, and in every CalcResult
\* the SLA working_seconds total of the to-date window and of the real window is <=
\* the OLA total of that window, and stops_sla_seconds <= stops_ola_seconds.
C16_SlaStopCostWithinOla ==
    /\ SLA_STOP_TYPES \subseteq OLA_STOP_TYPES
    /\ cpc = "done" =>
          LET r == Get(res)
              tree == r.explain.stops
          IN  /\ tree.sla_to_date.working_seconds <= tree.ola_to_date.working_seconds
              /\ tree.sla_real.working_seconds <= tree.ola_real.working_seconds
              /\ r.stops_sla_seconds <= r.stops_ola_seconds

\* C16 witness: a finalized entity with a Global stop and an Interna stop on different
\* working ticks: the SLA cost is positive and strictly below the OLA cost in both
\* windows
C16_Witness ==
    /\ cpc = "done"
    /\ RealEnd(entity) # None
    /\ Len(entity.stops) = 2
    /\ entity.stops[1].stop_type = "Interna"
    /\ entity.stops[2].stop_type = "Global"
    /\ StopsTree.sla_real.working_seconds > 0
    /\ StopsTree.sla_real.working_seconds < StopsTree.ola_real.working_seconds
    /\ StopsTree.sla_to_date.working_seconds > 0
    /\ StopsTree.sla_to_date.working_seconds < StopsTree.ola_to_date.working_seconds
    /\ Get(res).stops_sla_seconds < Get(res).stops_ola_seconds

=============================================================================
